---------------------------- MODULE Spec2Model ----------------------------
(***************************************************************************)
(* NaijaFloodWatch: a Streamlit dashboard (app.py) over two cached asset   *)
(* loaders, a ratio classifier and a chart builder (utils.py) and two HTTP *)
(* fetchers (fetch_open_meteo.py).                                         *)
(*                                                                         *)
(* One run of app.py (one Streamlit rerun) is modelled as a sequence of    *)
(* steps in source order; st.session_state persists between runs.  Pure    *)
(* functions are operators and are also exercised on their own, on inputs  *)
(* drawn from bounded sets, by the specifications SpecRisk, SpecLoad,      *)
(* SpecBaseline and SpecChart.                                             *)
(*                                                                         *)
(* Numbers.  Python floats are modelled as exact rationals num/den with    *)
(* den > 0.  Discharges and baselines are whole numbers of m3/s; for such  *)
(* operands IEEE division is correctly rounded, so d/b compares to the     *)
(* literals 0.8 and 1.2 exactly as the rational does.                      *)
(***************************************************************************)
EXTENDS Integers, Sequences, FiniteSets, TLC

\* ------------------------------------------------------------------ bounds

\* Longest response (rows) the discharge API is taken to return.
MaxRows == 2
\* Ratios handed to the classifier on its own: |num| <= MaxNum, den <= MaxDen.
MaxNum == 13
MaxDen == 10
\* Most property columns of a GeoJSON asset handed to the loader on its own.
MaxCols == 3

\* Most rows of a baseline CSV handed to load_baseline on its own.
MaxCsvRows == 3

\* ------------------------------------------------------------ python values

\* Python's None.
None == [kind |-> "None"]

\* A float num/den, den > 0.
Float(n, d) == [kind |-> "float", num |-> n, den |-> d]

\* float('nan'), which pandas stores for a missing number.
NaN == [kind |-> "nan"]

IsNone(x) == x.kind = "None"

\* Python truthiness of an optional float: None and 0.0 are false, every other
\* float (NaN included) is true.
Truthy(x) == CASE x.kind = "None" -> FALSE
               [] x.kind = "float" -> x.num # 0
               [] OTHER -> TRUE

\* pd.isna(x) for a float.
IsNa(x) == x.kind = "nan"

\* x <= a/b for floats x (not NaN) and a literal a/b with b > 0.
LessEq(x, a, b) == x.num * b <= a * x.den

\* x / y for floats, y # 0; NaN propagates.  The sign is kept in num.
TrueDiv(x, y) ==
    IF x.kind = "nan" \/ y.kind = "nan" THEN NaN
    ELSE IF y.num > 0 THEN Float(x.num * y.den, x.den * y.num)
         ELSE Float(-(x.num * y.den), -(x.den * y.num))

\* ------------------------------------------------------ utils.py: classifier

\* x < a/b, as LessEq.
Less(x, a, b) == x.num * b < a * x.den

Mut_determine_risk_level(ratio) ==
    IF IsNone(ratio) \/ IsNa(ratio) THEN <<"No Data", "#CCCCCC">>
    ELSE IF Less(ratio, 8, 10) THEN <<"Low", "#4CAF50">>
    ELSE IF Less(ratio, 12, 10) THEN <<"Medium", "#FFC107">>
    ELSE <<"High", "#F44336">>

\* determine_risk_level(ratio) -> (label, colour)
determine_risk_level(ratio) ==
    IF IsNone(ratio) \/ IsNa(ratio) THEN <<"No Data", "#CCCCCC">>
    ELSE IF LessEq(ratio, 8, 10) THEN <<"Low", "#4CAF50">>
    ELSE IF LessEq(ratio, 12, 10) THEN <<"Medium", "#FFC107">>
    ELSE <<"High", "#F44336">>

\* ------------------------------------------------- utils.py: baseline table

\* pandas' Series.to_dict(): the rows in file order, a later row replacing an
\* earlier one of the same index.
RECURSIVE to_dict(_)
to_dict(rows) ==
    IF rows = <<>> THEN [k \in {} |-> None]
    ELSE LET n == Len(rows)
             last == rows[n]
         IN (last.LGA :> last.baseline) @@ to_dict(SubSeq(rows, 1, n - 1))

Mut_load_baseline(csv) ==
    IF csv.status # "ok" THEN [k \in {} |-> None]
    ELSE [k \in {csv.rows[i].LGA : i \in DOMAIN csv.rows} |->
            csv.rows[CHOOSE i \in DOMAIN csv.rows :
                        /\ csv.rows[i].LGA = k
                        /\ \A j \in 1..(i - 1) : csv.rows[j].LGA # k].baseline]

\* load_baseline(path): the CSV at path is csv = [status, rows]; pd.read_csv
\* raises for a missing or malformed file, set_index('LGA')['baseline'] for
\* a missing column: every exception is caught and {} returned.
load_baseline(csv) ==
    IF csv.status # "ok" THEN [k \in {} |-> None]
    ELSE to_dict(csv.rows)

Mut_Get(d, key) == IF key \in DOMAIN d THEN d[key] ELSE Float(1, 1)

\* dict.get(key): None on a miss.
Get(d, key) == IF key \in DOMAIN d THEN d[key] ELSE None

\* ---------------------------------------------------- utils.py: area loader

name_cols == <<"ADM2_NAME", "NAME_2", "NAME2", "LGA_NAME", "ADM2nm", "NAME">>

InSeq(x, s) == \E i \in DOMAIN s : s[i] = x

\* next((c for c in cols if c in S), None): the first element of cols, in
\* the order of cols, that is in S; 0 stands for None.
FirstIndex(cols, S) ==
    IF \E i \in DOMAIN cols : cols[i] \in S
    THEN CHOOSE i \in DOMAIN cols : cols[i] \in S /\ \A j \in 1..(i - 1) : cols[j] \notin S
    ELSE 0

\* The column load_lga_gdf takes the area names from: the first column of the
\* frame, in the frame's own column order, that is one of name_cols, else the
\* first object-dtype column other than geometry and NAME_1; 0 when neither.
lga_col(asset) ==
    LET recognised == {name_cols[p] : p \in DOMAIN name_cols}
        fallback == asset.object_cols \ {"geometry", "NAME_1"}
        first == FirstIndex(asset.columns, recognised)
    IN IF first # 0 THEN first ELSE FirstIndex(asset.columns, fallback)

Mut_load_lga_gdf(asset) ==
    LET c == lga_col(asset)
    IN [kind |-> "gdf",
        rows |-> IF asset.status # "ok" \/ c = 0 THEN <<>>
                 ELSE [i \in DOMAIN asset.features |->
                         [LGA   |-> asset.features[i].props[asset.columns[c]],
                          State |-> "Unknown",
                          lat   |-> asset.features[i].lat,
                          lon   |-> asset.features[i].lon]]]

\* load_lga_gdf(path): the GeoJSON at path is asset = [status, columns,
\* object_cols, features]; a feature maps each column to its value and carries
\* the centroid of its geometry as lat, lon.  Any exception (file missing or
\* unparsable) and an unidentified name column give None.
load_lga_gdf(asset) ==
    IF asset.status # "ok" THEN None
    ELSE LET c == lga_col(asset)
             hasState == InSeq("NAME_1", asset.columns)
         IN IF c = 0 THEN None
            ELSE [kind |-> "gdf",
                  rows |-> [i \in DOMAIN asset.features |->
                              [LGA   |-> asset.features[i].props[asset.columns[c]],
                               State |-> IF hasState THEN asset.features[i].props["NAME_1"]
                                         ELSE "Unknown",
                               lat   |-> asset.features[i].lat,
                               lon   |-> asset.features[i].lon]]]

\* ------------------------------------------- utils.py: time-series chart

\* x * a/b for a float x.
Mul(x, a, b) == Float(x.num * a, x.den * b)

\* [v] * n
Repeat(v, n) == [i \in 1..n |-> v]

Mut_generate_time_series_chart(forecast_data, lga_name, baseline_value) ==
    IF IsNone(forecast_data) THEN None
    ELSE LET n == Len(forecast_data.rows)
             x == [i \in 1..n |-> forecast_data.rows[i].date]
             line(name, y) == [name |-> name, x |-> x, y |-> y]
         IN [kind   |-> "fig",
             title  |-> lga_name,
             traces |->
               <<line("Discharge Forecast",
                      [i \in 1..n |-> forecast_data.rows[i].discharge_max])>>
               \o (IF Truthy(baseline_value) /\ ~IsNa(baseline_value)
                   THEN <<line("Baseline (Sept 14, 2022)", Repeat(baseline_value, n)),
                          line("High Risk Threshold", Repeat(Mul(baseline_value, 12, 10), n)),
                          line("Low Risk Threshold", Repeat(Mul(baseline_value, 8, 10), n))>>
                   ELSE <<>>)]

\* generate_time_series_chart(forecast_data, lga_name, baseline_value): None
\* for no or empty data, else the figure's traces in the order they are
\* added: the forecast line, then with a truthy, non-NaN baseline the
\* baseline, the 1.2x and the 0.8x lines.
generate_time_series_chart(forecast_data, lga_name, baseline_value) ==
    IF IsNone(forecast_data) \/ forecast_data.rows = <<>> THEN None
    ELSE LET n == Len(forecast_data.rows)
             x == [i \in 1..n |-> forecast_data.rows[i].date]
             line(name, y) == [name |-> name, x |-> x, y |-> y]
         IN [kind   |-> "fig",
             title  |-> lga_name,
             traces |->
               <<line("Discharge Forecast",
                      [i \in 1..n |-> forecast_data.rows[i].discharge_max])>>
               \o (IF Truthy(baseline_value) /\ ~IsNa(baseline_value)
                   THEN <<line("Baseline (Sept 14, 2022)", Repeat(baseline_value, n)),
                          line("High Risk Threshold", Repeat(Mul(baseline_value, 12, 10), n)),
                          line("Low Risk Threshold", Repeat(Mul(baseline_value, 8, 10), n))>>
                   ELSE <<>>)]

\* ------------------------------------------- fetch_open_meteo.py: fetchers

\* Discharge values (m3/s) the API is taken to report: 0 for a dry reach, and
\* 120, 180, 200 = 0.8, 1.2 and 4/3 of the baseline 150.
DischargeVals == {0, 120, 180, 200}

RECURSIVE SeqsUpTo(_, _)
SeqsUpTo(S, n) ==
    IF n = 0 THEN {<<>>}
    ELSE LET shorter == SeqsUpTo(S, n - 1)
         IN shorter \cup {Append(q, v) : q \in {t \in shorter : Len(t) = n - 1}, v \in S}

\* The frames pd.DataFrame({"date": dates, "discharge_max": values}) of the
\* responses: row i is day i of the requested range.
Frames ==
    {[i \in DOMAIN q |-> [date |-> i, discharge_max |-> Float(q[i], 1)]] :
        q \in SeqsUpTo(DischargeVals, MaxRows)}

\* What one call of fetch_open_meteo_forecast / fetch_open_meteo_historical
\* for (lat, lon) can do: return the frame of the response (which records the
\* coordinates asked for), or raise: HTTPError from raise_for_status() on a
\* non-2xx answer, ConnectionError from requests.get(), KeyError from
\* data["daily"][...] on a body without the expected fields.
FetchOutcomes(lat, lon) ==
    {[kind |-> "ok", df |-> [kind |-> "df", rows |-> r, lat |-> lat, lon |-> lon]] :
        r \in Frames}
    \cup {[kind |-> "HTTPError"], [kind |-> "ConnectionError"], [kind |-> "KeyError"]}

fetch_open_meteo_forecast(lat, lon) == FetchOutcomes(lat, lon)

fetch_open_meteo_historical(lat, lon, start_date) == FetchOutcomes(lat, lon)

\* ------------------------------------------------------- the assets on disk

\* A GADM level-2 extract: five areas in three states, two of them of the
\* same name in different states.
GadmColumns == <<"GID_2", "NAME_1", "NAME_2">>

GadmFeature(i, state, name) ==
    [props |-> [GID_2 |-> <<"NGA", i>>, NAME_1 |-> state, NAME_2 |-> name],
     lat |-> 5 + i, lon |-> 3 + i]

GadmAsset(status) ==
    [status      |-> status,
     columns     |-> GadmColumns,
     object_cols |-> {"GID_2", "NAME_1", "NAME_2"},
     features    |-> <<GadmFeature(1, "Kogi", "Lokoja"),
                       GadmFeature(2, "Kogi", "Bassa"),
                       GadmFeature(3, "Plateau", "Bassa"),
                       GadmFeature(4, "Anambra", "Ogbaru"),
                       GadmFeature(5, "Anambra", "Awka")>>]

\* baseline_20220914.csv: a positive baseline (given twice), a zero and a
\* negative one; Awka has no row.
BaselineCsv(status) ==
    [status |-> status,
     rows   |-> <<[LGA |-> "Lokoja", baseline |-> Float(10, 1)],
                  [LGA |-> "Bassa",  baseline |-> Float(0, 1)],
                  [LGA |-> "Ogbaru", baseline |-> Float(-50, 1)],
                  [LGA |-> "Lokoja", baseline |-> Float(150, 1)]>>]

AssetStatus == {"ok", "missing", "malformed"}

\* ------------------------------------------------------------ app.py: state

VARIABLES
    geo_asset,      \* the file at shapefile_path
    baseline_csv,   \* the file at baseline_csv
    session_state,  \* st.session_state: key -> value, kept between runs
    mode,           \* the "Select View" radio
    event,          \* what the user did to start this run
    pc,             \* where the run of app.py is
    lga_gdf,        \* the script's lga_gdf (None until loaded)
    baseline_map,   \* the script's baseline_map
    locals,         \* the form handler's discharge, base, ratio, risk_level
    metrics,        \* what st.metric / the risk box show
    chart,          \* the figure given to st.plotly_chart
    shown,          \* the elements this run has put on the page
    requests,       \* requests sent to the discharge API since the user acted
    prior,          \* the cached-result keys session_state held when the user acted
    prev_render,    \* the modes of the renders before the one the user started
    fn_in,          \* a pure function's argument, when run on its own
    fn_out          \* and its result

appVars == <<geo_asset, baseline_csv, session_state, mode, event, pc, lga_gdf,
             baseline_map, locals, metrics, chart, shown, requests, prior, prev_render>>

fnVars == <<fn_in, fn_out>>

vars == <<geo_asset, baseline_csv, session_state, mode, event, pc, lga_gdf,
          baseline_map, locals, metrics, chart, shown, requests, prior, prev_render,
          fn_in, fn_out>>

Modes == {"About", "Forecast", "Historical"}

\* "key in st.session_state"
Has(key) == key \in DOMAIN session_state

\* del ss[k] for the keys of ks that are present
Del(ss, ks) == [k \in DOMAIN ss \ ks |-> ss[k]]

\* ss[key] = value
Put(ss, key, value) == [k \in DOMAIN ss \cup {key} |-> IF k = key THEN value ELSE ss[k]]

\* The user has done nothing but open or reload the page.
NoEvent == [kind |-> "none", state_filter |-> "All States", selected |-> "", date |-> 1]

\* The run is over: it reached the footer, st.stop(), or an exception no
\* handler of app.py caught (Streamlit shows it and ends the run).
Ended == pc \in {"done", "stopped", "crashed"}

\* f"{x:.2f}" if x else "-"
Fmt(x) == IF Truthy(x) THEN [kind |-> "%.2f", of |-> x] ELSE [kind |-> "-"]

\* The first lines of every run: page config, header, sidebar.
FreshPage == {"mode_radio"}

\* Before the first render there is none: taken as one of the first render's
\* own mode, so that the first render is no change of mode.
NoRender == [mode |-> "Forecast", data_mode |-> "Forecast"]

AppInit ==
    /\ geo_asset \in {GadmAsset(st) : st \in AssetStatus}
    /\ baseline_csv \in {BaselineCsv(st) : st \in AssetStatus}
    /\ session_state = [k \in {} |-> None]
    /\ mode = "Forecast"
    /\ event = NoEvent
    /\ pc = "load_shapefile"
    /\ lga_gdf = None
    /\ baseline_map = [k \in {} |-> None]
    /\ locals = None
    /\ metrics = None
    /\ chart = None
    /\ shown = FreshPage
    /\ requests = 0
    /\ prior = {}
    /\ prev_render = NoRender

FnIdle == fn_in = None /\ fn_out = None

Init == AppInit /\ FnIdle

\* ------------------------------------------------------- app.py: the user

\* A new run starts from the top with nothing on the page.
StartRun(ev) ==
    /\ event' = ev
    /\ pc' = "load_shapefile"
    /\ lga_gdf' = None
    /\ baseline_map' = [k \in {} |-> None]
    /\ locals' = None
    /\ metrics' = None
    /\ chart' = None
    /\ shown' = FreshPage
    /\ UNCHANGED <<geo_asset, baseline_csv, fnVars>>

\* The cached results in st.session_state
CacheKeys == {"forecast_data", "historical_data"}

\* A user action starts a new interaction.
Acted ==
    /\ requests' = 0
    /\ prior' = DOMAIN session_state \cap CacheKeys
    /\ prev_render' = [mode      |-> mode,
                       data_mode |-> IF mode # "About" THEN mode
                                     ELSE prev_render.data_mode]

\* The user picks another view in the sidebar radio.
ChangeMode ==
    /\ Ended
    /\ "mode_radio" \in shown
    /\ \E m \in Modes \ {mode} : mode' = m
    /\ Acted
    /\ StartRun(NoEvent)
    /\ UNCHANGED session_state

\* The user changes a selectbox without pressing a button, or reloads.
Rerun ==
    /\ Ended
    /\ Acted
    /\ StartRun(NoEvent)
    /\ UNCHANGED <<session_state, mode>>

\* sorted(lga_gdf[lga_gdf['State'] == state_filter]['LGA']), or all of them
filtered_lgas(gdf, state_filter) ==
    {gdf.rows[i].LGA : i \in {j \in DOMAIN gdf.rows :
        state_filter = "All States" \/ gdf.rows[j].State = state_filter}}

\* The user sets the state filter and the area selectbox and presses
\* "Select LGA".
PressSelectLGA ==
    /\ Ended
    /\ "select_button" \in shown
    /\ \E f \in {"All States"} \cup {lga_gdf.rows[i].State : i \in DOMAIN lga_gdf.rows} :
         \E a \in filtered_lgas(lga_gdf, f) :
            StartRun([kind |-> "select", state_filter |-> f, selected |-> a, date |-> 1])
    /\ Acted
    /\ UNCHANGED <<session_state, mode>>

\* The user picks a date in the form and presses its submit button.
SubmitForm ==
    /\ Ended
    /\ "form" \in shown
    /\ \E d \in 1..MaxRows :
         StartRun([kind |-> "submit", state_filter |-> "All States", selected |-> "",
                   date |-> d])
    /\ Acted
    /\ UNCHANGED <<session_state, mode>>

\* ------------------------------------------------- app.py: one run, in order

\* Lines 105-113: load the shapefile; None is fatal (st.error, st.stop()).
LoadShapefile ==
    /\ pc = "load_shapefile"
    /\ lga_gdf' = load_lga_gdf(geo_asset)
    /\ IF IsNone(lga_gdf')
       THEN /\ shown' = shown \cup {"shapefile_error"}
            /\ pc' = "stopped"
       ELSE /\ shown' = shown
            /\ pc' = "load_baseline"
    /\ UNCHANGED <<geo_asset, baseline_csv, prior, prev_render,
                   session_state, mode, event, baseline_map,
                   locals, metrics, chart, requests, fnVars>>

Mut_LoadBaseline ==
    /\ pc = "load_baseline"
    /\ baseline_map' = load_baseline(baseline_csv)
    /\ IF DOMAIN baseline_map' = {}
       THEN shown' = shown \cup {"baseline_error"} /\ pc' = "stopped"
       ELSE shown' = shown /\ pc' = "mode"
    /\ UNCHANGED <<geo_asset, baseline_csv, prior, prev_render,
                   session_state, mode, event, lga_gdf,
                   locals, metrics, chart, requests, fnVars>>

\* Lines 115-122: load the baseline; an empty mapping only warns.
LoadBaseline ==
    /\ pc = "load_baseline"
    /\ baseline_map' = load_baseline(baseline_csv)
    /\ shown' = IF DOMAIN baseline_map' = {} THEN shown \cup {"baseline_warning"} ELSE shown
    /\ pc' = "mode"
    /\ UNCHANGED <<geo_asset, baseline_csv, prior, prev_render,
                   session_state, mode, event, lga_gdf,
                   locals, metrics, chart, requests, fnVars>>

\* Lines 129-216: the About page; it reads and writes no session key of the
\* program and goes on to the footer.
RenderAbout ==
    /\ pc = "mode"
    /\ mode = "About"
    /\ shown' = shown \cup {"about_page"}
    /\ pc' = "footer"
    /\ UNCHANGED <<geo_asset, baseline_csv, prior, prev_render,
                   session_state, mode, event, lga_gdf,
                   baseline_map, locals, metrics, chart, requests, fnVars>>

Mut_EnterMode ==
    /\ pc = "mode"
    /\ mode # "About"
    /\ session_state' = Put(session_state, "last_mode", mode)
    /\ pc' = "select"
    /\ UNCHANGED <<geo_asset, baseline_csv, prior, prev_render, mode, event, lga_gdf,
                   baseline_map, locals, metrics, chart, shown, requests, fnVars>>

\* Lines 218-226: on a change of mode drop the cached results, then store the
\* mode.
EnterMode ==
    /\ pc = "mode"
    /\ mode # "About"
    /\ LET cleared == IF Has("last_mode") /\ session_state["last_mode"] # mode
                      THEN Del(session_state, CacheKeys)
                      ELSE session_state
       IN session_state' = Put(cleared, "last_mode", mode)
    /\ pc' = "select"
    /\ UNCHANGED <<geo_asset, baseline_csv, prior, prev_render,
                   mode, event, lga_gdf, baseline_map,
                   locals, metrics, chart, shown, requests, fnVars>>

\* lga_gdf[lga_gdf['LGA'] == selected].iloc[0]
FirstNamed(gdf, selected) ==
    gdf.rows[CHOOSE i \in DOMAIN gdf.rows :
                /\ gdf.rows[i].LGA = selected
                /\ \A j \in 1..(i - 1) : gdf.rows[j].LGA # selected]

Mut_SelectLGA ==
    /\ pc = "select"
    /\ event.kind = "select"
    /\ LET sel == FirstNamed(lga_gdf, event.selected)
       IN session_state' =
            Put(Put(Put(Put(session_state, "sel_lga", sel.LGA), "sel_state", sel.State),
                    "lat", sel.lat), "lon", sel.lon)
    /\ StartRun(NoEvent)
    /\ UNCHANGED <<mode, requests, prior, prev_render>>

\* Lines 259-273: "Select LGA" pressed: drop the cached results, store the
\* first record of that name, st.rerun().
SelectLGA ==
    /\ pc = "select"
    /\ event.kind = "select"
    /\ LET sel == FirstNamed(lga_gdf, event.selected)
           cleared == Del(session_state, CacheKeys)
       IN session_state' =
            Put(Put(Put(Put(cleared, "sel_lga", sel.LGA), "sel_state", sel.State),
                    "lat", sel.lat), "lon", sel.lon)
    /\ StartRun(NoEvent)
    /\ UNCHANGED <<mode, requests, prior, prev_render>>

\* Lines 232-343 otherwise: the selection widgets and, with a selection, the
\* banner.
RenderSelection ==
    /\ pc = "select"
    /\ event.kind # "select"
    /\ shown' = shown \cup {"select_button"}
                      \cup (IF Has("sel_lga") THEN {"selected_banner"} ELSE {})
    /\ pc' = "results"
    /\ UNCHANGED <<geo_asset, baseline_csv, prior, prev_render,
                   session_state, mode, event, lga_gdf,
                   baseline_map, locals, metrics, chart, requests, fnVars>>

\* ------------------------------------------------ app.py: the form handlers

\* discharge/base if base and discharge else None
Ratio(discharge, base) ==
    IF Truthy(base) /\ Truthy(discharge) THEN TrueDiv(discharge, base) ELSE None

\* row = df[df['date'] == date]; float(row['discharge_max'].iloc[0]) if not
\* row.empty else None
ForecastDischarge(df, date) ==
    LET row == SelectSeq(df.rows, LAMBDA r : r.date = date)
    IN IF row # <<>> THEN row[1].discharge_max ELSE None

\* float(dfh['discharge_max'].iloc[0]) if not dfh.empty else None
HistoricalDischarge(dfh) ==
    IF dfh.rows # <<>> THEN dfh.rows[1].discharge_max ELSE None

\* Lines 379-381 and 449-451: the handler's base, ratio and risk level.
Assess(discharge, lga) ==
    LET base == Get(baseline_map, lga)
        ratio == Ratio(discharge, base)
        risk == determine_risk_level(ratio)
    IN [kind |-> "assessed", lga |-> lga, discharge |-> discharge, base |-> base,
        ratio |-> ratio, risk_level |-> risk[1], risk_color |-> risk[2]]

\* Lines 383-410: the four forecast metrics.
ForecastMetrics(a) ==
    [kind |-> "forecast", discharge |-> Fmt(a.discharge), baseline |-> Fmt(a.base),
     ratio |-> Fmt(a.ratio), risk |-> a.risk_level, color |-> a.risk_color]

Mut_HistoricalMetrics(a) ==
    [kind |-> "historical", discharge |-> Fmt(a.discharge), baseline |-> Fmt(a.base),
     ratio |-> Fmt(a.ratio), risk |-> a.risk_level, color |-> a.risk_color]

\* Lines 454-464: the one historical metric.
HistoricalMetrics(a) == [kind |-> "historical", discharge |-> Fmt(a.discharge)]

\* Lines 347-365 and 419-437 with no submit: the info line, or the form.
RenderForm ==
    /\ pc = "results"
    /\ event.kind # "submit" \/ ~Has("sel_lga")
    /\ shown' = shown \cup (IF Has("sel_lga") THEN {"form"} ELSE {"select_info"})
    /\ pc' = "timeseries"
    /\ UNCHANGED <<geo_asset, baseline_csv, prior, prev_render,
                   session_state, mode, event, lga_gdf,
                   baseline_map, locals, metrics, chart, requests, fnVars>>

\* The handler has pressed-button work to do in the given mode.
Submitted(m) ==
    /\ pc = "results"
    /\ mode = m
    /\ event.kind = "submit"
    /\ Has("sel_lga")

\* Lines 367-413: "Generate Forecast", the fetch returning a frame.
ForecastSubmitOk ==
    /\ Submitted("Forecast")
    /\ \E o \in fetch_open_meteo_forecast(session_state["lat"], session_state["lon"]) :
         /\ o.kind = "ok"
         /\ session_state' = Put(Del(session_state, {"forecast_data"}), "forecast_data", o.df)
         /\ locals' = Assess(ForecastDischarge(o.df, event.date), session_state["sel_lga"])
    /\ metrics' = ForecastMetrics(locals')
    /\ shown' = shown \cup {"form", "metrics"}
    /\ requests' = requests + 1
    /\ pc' = "timeseries"
    /\ UNCHANGED <<geo_asset, baseline_csv, prior, prev_render,
                   mode, event, lga_gdf, baseline_map, chart,
                   fnVars>>

Mut_ForecastSubmitHTTPError ==
    /\ Submitted("Forecast")
    /\ \E o \in fetch_open_meteo_forecast(session_state["lat"], session_state["lon"]) :
         o.kind = "HTTPError"
    /\ shown' = shown \cup {"form", "api_error"}
    /\ requests' = requests + 1
    /\ pc' = "timeseries"
    /\ UNCHANGED <<geo_asset, baseline_csv, prior, prev_render,
                   session_state, mode, event, lga_gdf,
                   baseline_map, locals, metrics, chart, fnVars>>

\* Lines 367-374, 415-417: the fetch raising HTTPError: st.error, and the key
\* popped again.
ForecastSubmitHTTPError ==
    /\ Submitted("Forecast")
    /\ \E o \in fetch_open_meteo_forecast(session_state["lat"], session_state["lon"]) :
         o.kind = "HTTPError"
    /\ session_state' = Del(session_state, {"forecast_data"})
    /\ shown' = shown \cup {"form", "api_error"}
    /\ requests' = requests + 1
    /\ pc' = "timeseries"
    /\ UNCHANGED <<geo_asset, baseline_csv, prior, prev_render,
                   mode, event, lga_gdf, baseline_map, locals,
                   metrics, chart, fnVars>>

\* Lines 367-374: the fetch raising anything else: "except HTTPError" does
\* not catch it and the run ends there, after the del of line 370.
ForecastSubmitUncaught ==
    /\ Submitted("Forecast")
    /\ \E o \in fetch_open_meteo_forecast(session_state["lat"], session_state["lon"]) :
         /\ o.kind \notin {"ok", "HTTPError"}
         /\ shown' = shown \cup {"form", "exception", o.kind}
    /\ session_state' = Del(session_state, {"forecast_data"})
    /\ requests' = requests + 1
    /\ pc' = "crashed"
    /\ UNCHANGED <<geo_asset, baseline_csv, prior, prev_render,
                   mode, event, lga_gdf, baseline_map, locals,
                   metrics, chart, fnVars>>

\* Lines 439-464: "Retrieve Historical Data", the fetch returning a frame.
HistoricalSubmitOk ==
    /\ Submitted("Historical")
    /\ \E o \in fetch_open_meteo_historical(session_state["lat"], session_state["lon"],
                                            event.date) :
         /\ o.kind = "ok"
         /\ session_state' = Put(Del(session_state, {"historical_data"}),
                                 "historical_data", o.df)
         /\ locals' = Assess(HistoricalDischarge(o.df), session_state["sel_lga"])
    /\ metrics' = HistoricalMetrics(locals')
    /\ shown' = shown \cup {"form", "metrics"}
    /\ requests' = requests + 1
    /\ pc' = "timeseries"
    /\ UNCHANGED <<geo_asset, baseline_csv, prior, prev_render,
                   mode, event, lga_gdf, baseline_map, chart,
                   fnVars>>

\* Lines 439-446, 466-467: the fetch raising HTTPError: st.error.
HistoricalSubmitHTTPError ==
    /\ Submitted("Historical")
    /\ \E o \in fetch_open_meteo_historical(session_state["lat"], session_state["lon"],
                                            event.date) :
         o.kind = "HTTPError"
    /\ session_state' = Del(session_state, {"historical_data"})
    /\ shown' = shown \cup {"form", "api_error"}
    /\ requests' = requests + 1
    /\ pc' = "timeseries"
    /\ UNCHANGED <<geo_asset, baseline_csv, prior, prev_render,
                   mode, event, lga_gdf, baseline_map, locals,
                   metrics, chart, fnVars>>

\* Lines 439-446: the fetch raising anything else: the run ends there, after
\* the del of line 442.
HistoricalSubmitUncaught ==
    /\ Submitted("Historical")
    /\ \E o \in fetch_open_meteo_historical(session_state["lat"], session_state["lon"],
                                            event.date) :
         /\ o.kind \notin {"ok", "HTTPError"}
         /\ shown' = shown \cup {"form", "exception", o.kind}
    /\ session_state' = Del(session_state, {"historical_data"})
    /\ requests' = requests + 1
    /\ pc' = "crashed"
    /\ UNCHANGED <<geo_asset, baseline_csv, prior, prev_render,
                   mode, event, lga_gdf, baseline_map, locals,
                   metrics, chart, fnVars>>

\* --------------------------------------- app.py: the chart and the page end

\* Lines 490-514: the chart of the frame, or the warning when there is none.
ShowChart(forecast_data) ==
    LET fig == generate_time_series_chart(forecast_data, session_state["sel_lga"],
                                          Get(baseline_map, session_state["sel_lga"]))
    IN IF IsNone(fig)
       THEN chart' = None /\ shown' = shown \cup {"no_chart_warning"}
       ELSE chart' = fig /\ shown' = shown \cup {"chart"}

\* Line 470 false: no chart section outside Forecast mode or with no selection.
TimeSeriesSkip ==
    /\ pc = "timeseries"
    /\ ~(mode = "Forecast" /\ Has("sel_lga"))
    /\ pc' = "footer"
    /\ UNCHANGED <<geo_asset, baseline_csv, prior, prev_render,
                   session_state, mode, event, lga_gdf,
                   baseline_map, locals, metrics, chart, shown, requests, fnVars>>

\* Lines 487-493: the frame in session state is charted.
TimeSeriesCached ==
    /\ pc = "timeseries"
    /\ mode = "Forecast" /\ Has("sel_lga")
    /\ Has("forecast_data")
    /\ ShowChart(session_state["forecast_data"])
    /\ pc' = "footer"
    /\ UNCHANGED <<geo_asset, baseline_csv, prior, prev_render,
                   session_state, mode, event, lga_gdf,
                   baseline_map, locals, metrics, requests, fnVars>>

\* Lines 479-483, 490-493: no frame in session state: one is fetched, stored
\* and charted.
TimeSeriesFetchOk ==
    /\ pc = "timeseries"
    /\ mode = "Forecast" /\ Has("sel_lga")
    /\ ~Has("forecast_data")
    /\ \E o \in fetch_open_meteo_forecast(session_state["lat"], session_state["lon"]) :
         /\ o.kind = "ok"
         /\ session_state' = Put(session_state, "forecast_data", o.df)
         /\ ShowChart(o.df)
    /\ requests' = requests + 1
    /\ pc' = "footer"
    /\ UNCHANGED <<geo_asset, baseline_csv, prior, prev_render,
                   mode, event, lga_gdf, baseline_map, locals,
                   metrics, fnVars>>

\* Lines 479-486: the fetch raising: "except Exception" catches whatever it
\* is, st.error, and nothing is charted.
TimeSeriesFetchFails ==
    /\ pc = "timeseries"
    /\ mode = "Forecast" /\ Has("sel_lga")
    /\ ~Has("forecast_data")
    /\ \E o \in fetch_open_meteo_forecast(session_state["lat"], session_state["lon"]) :
         o.kind # "ok"
    /\ shown' = shown \cup {"timeseries_error"}
    /\ requests' = requests + 1
    /\ pc' = "footer"
    /\ UNCHANGED <<geo_asset, baseline_csv, prior, prev_render,
                   session_state, mode, event, lga_gdf,
                   baseline_map, locals, metrics, chart, fnVars>>

\* Lines 516-543: the methodology expander (Forecast or Historical with a
\* selection) and the footer.
Footer ==
    /\ pc = "footer"
    /\ shown' = shown \cup {"footer"}
                      \cup (IF mode # "About" /\ Has("sel_lga") THEN {"methodology"} ELSE {})
    /\ pc' = "done"
    /\ UNCHANGED <<geo_asset, baseline_csv, prior, prev_render,
                   session_state, mode, event, lga_gdf,
                   baseline_map, locals, metrics, chart, requests, fnVars>>

Next ==
    \/ ChangeMode
    \/ Rerun
    \/ PressSelectLGA
    \/ SubmitForm
    \/ LoadShapefile
    \/ LoadBaseline
    \/ RenderAbout
    \/ EnterMode
    \/ SelectLGA
    \/ RenderSelection
    \/ RenderForm
    \/ ForecastSubmitOk
    \/ ForecastSubmitHTTPError
    \/ ForecastSubmitUncaught
    \/ HistoricalSubmitOk
    \/ HistoricalSubmitHTTPError
    \/ HistoricalSubmitUncaught
    \/ TimeSeriesSkip
    \/ TimeSeriesCached
    \/ TimeSeriesFetchOk
    \/ TimeSeriesFetchFails
    \/ Footer

Spec == Init /\ [][Next]_vars

\* ------------------------------------------- the pure functions on their own

\* The app, not started: what the app's variables hold while a pure function
\* is run on its own.
AppIdle ==
    /\ geo_asset = GadmAsset("ok")
    /\ baseline_csv = BaselineCsv("ok")
    /\ session_state = [k \in {} |-> None]
    /\ mode = "Forecast"
    /\ event = NoEvent
    /\ pc = "load_shapefile"
    /\ lga_gdf = None
    /\ baseline_map = [k \in {} |-> None]
    /\ locals = None
    /\ metrics = None
    /\ chart = None
    /\ shown = FreshPage
    /\ requests = 0
    /\ prior = {}
    /\ prev_render = NoRender

\* What determine_risk_level is called with: None, NaN, or a float.
RatioInputs ==
    {None, NaN} \cup {Float(n, d) : n \in (-MaxNum)..MaxNum, d \in 1..MaxDen}

InitRisk == AppIdle /\ fn_in \in RatioInputs /\ fn_out = None

\* risk_level, risk_color = determine_risk_level(ratio)
CallDetermineRiskLevel ==
    /\ IsNone(fn_out)
    /\ fn_out' = [kind |-> "returned", value |-> determine_risk_level(fn_in)]
    /\ UNCHANGED <<appVars, fn_in>>

NextRisk == CallDetermineRiskLevel

SpecRisk == InitRisk /\ [][NextRisk]_vars

\* Property columns a GeoJSON asset may carry: three of name_cols, the state
\* column, an identifier (text) and an area (a number).
ColUniverse == {"ADM2_NAME", "NAME_2", "NAME", "NAME_1", "GID_2", "Shape_Area"}

\* The sequences of at most n distinct elements of S.
Arrangements(S, n) ==
    {q \in SeqsUpTo(S, n) : \A i, j \in DOMAIN q : i # j => q[i] # q[j]}

\* An asset with the given property columns and two features; the value of
\* column c in feature i is <<c, i>>.
LoaderAsset(status, cols) ==
    LET names == {cols[k] : k \in DOMAIN cols}
    IN [status      |-> status,
        columns     |-> cols,
        object_cols |-> names \ {"Shape_Area"},
        features    |-> [i \in 1..2 |->
                           [props |-> [c \in names |-> <<c, i>>], lat |-> i, lon |-> i]]]

InitLoad ==
    /\ AppIdle
    /\ fn_in \in {LoaderAsset(st, cols) :
                    st \in AssetStatus, cols \in Arrangements(ColUniverse, MaxCols)}
    /\ fn_out = None

\* lga_gdf = load_lga_gdf(shapefile_path)
CallLoadLgaGdf ==
    /\ IsNone(fn_out)
    /\ fn_out' = [kind |-> "returned", value |-> load_lga_gdf(fn_in)]
    /\ UNCHANGED <<appVars, fn_in>>

NextLoad == CallLoadLgaGdf

SpecLoad == InitLoad /\ [][NextLoad]_vars

\* The rows a baseline CSV may hold: two area names, two values and an empty
\* baseline cell, which pd.read_csv reads as NaN.
CsvRows ==
    {[LGA |-> n, baseline |-> v] : n \in {"X", "Y"}, v \in {Float(10, 1), Float(20, 1), NaN}}

InitBaseline ==
    /\ AppIdle
    /\ fn_in \in {[status |-> st, rows |-> r] :
                    st \in AssetStatus, r \in SeqsUpTo(CsvRows, MaxCsvRows)}
    /\ fn_out = None

\* baseline_map = load_baseline(baseline_csv)
CallLoadBaseline ==
    /\ IsNone(fn_out)
    /\ fn_out' = [kind |-> "returned", value |-> load_baseline(fn_in)]
    /\ UNCHANGED <<appVars, fn_in>>

NextBaseline == CallLoadBaseline

SpecBaseline == InitBaseline /\ [][NextBaseline]_vars

\* The baselines baseline_map.get(lga) can hand to the chart: None for a
\* miss, NaN for an empty cell, zero, a positive and a negative value.
ChartBaselines == {None, NaN, Float(0, 1), Float(100, 1), Float(-50, 1)}

InitChart ==
    /\ AppIdle
    /\ fn_in \in {[forecast_data  |-> d, lga_name |-> "Lokoja", baseline_value |-> b] :
                    d \in {None} \cup {[kind |-> "df", rows |-> r, lat |-> 6, lon |-> 4] :
                                          r \in Frames},
                    b \in ChartBaselines}
    /\ fn_out = None

\* fig = generate_time_series_chart(forecast_data, lga, baseline)
CallGenerateTimeSeriesChart ==
    /\ IsNone(fn_out)
    /\ fn_out' = [kind  |-> "returned",
                  value |-> generate_time_series_chart(fn_in.forecast_data, fn_in.lga_name,
                                                       fn_in.baseline_value)]
    /\ UNCHANGED <<appVars, fn_in>>

NextChart == CallGenerateTimeSeriesChart

SpecChart == InitChart /\ [][NextChart]_vars

\* ------------------------------------------------------------------ claims

Returned == fn_out.kind = "returned"

\* The tier the specification gives a float ratio num/den (den > 0), with
\* inclusive upper boundaries at 4/5 and 6/5.
SpecTier(r) ==
    IF 5 * r.num <= 4 * r.den THEN "Low"
    ELSE IF 5 * r.num <= 6 * r.den THEN "Medium"
    ELSE "High"

\* C1, as stated: determine_risk_level gives Low for ratio <= 0.8, Medium for
\* 0.8 < ratio <= 1.2, High for ratio > 1.2, and Unknown for an absent ratio.
C1_AbsentRatioIsUnknown ==
    Returned =>
        /\ fn_in.kind = "float" => fn_out.value[1] = SpecTier(fn_in)
        /\ IsNone(fn_in) => fn_out.value[1] = "Unknown"

\* C1, amended: determine_risk_level gives Low for ratio <= 0.8, Medium for
\* 0.8 < ratio <= 1.2, High for ratio > 1.2, and the label "No Data" for an
\* absent (or NaN) ratio; every input has exactly one of these four results.
C1_RiskTiers ==
    Returned =>
        /\ fn_in.kind = "float" => fn_out.value[1] = SpecTier(fn_in)
        /\ fn_in.kind # "float" => fn_out.value[1] = "No Data"
        /\ fn_out.value[1] \in {"Low", "Medium", "High", "No Data"}

\* C1's case: the boundary ratios 0.8 (as 8/10) and an absent ratio were
\* classified; here 0.8, which is Low.
C1_Witness ==
    /\ Returned
    /\ fn_in = Float(8, 10)
    /\ fn_out.value[1] = "Low"

Assessed == locals.kind = "assessed"

\* C2, as stated: in the forecast and the historical handler the ratio handed
\* to the classifier is absent whenever the looked-up baseline is zero or
\* negative, and the tier is then the classifier's tier for an absent ratio.
C2_NonPositiveBaselineNoRatio ==
    (Assessed /\ locals.base.kind = "float" /\ locals.base.num <= 0) =>
        /\ IsNone(locals.ratio)
        /\ locals.risk_level = determine_risk_level(None)[1]

\* C3, as stated: for a discharge d >= 0 found for the chosen date and a
\* positive baseline b the ratio is present and equal to d / b, and the
\* tier is the classifier's for d / b.
C3_RatioIsDischargeOverBaseline ==
    (/\ Assessed
     /\ locals.discharge.kind = "float" /\ locals.discharge.num >= 0
     /\ locals.base.kind = "float" /\ locals.base.num > 0) =>
        /\ locals.ratio.kind = "float"
        /\ locals.ratio.num * locals.base.num * locals.discharge.den
             = locals.discharge.num * locals.base.den * locals.ratio.den
        /\ locals.risk_level = SpecTier(TrueDiv(locals.discharge, locals.base))

\* The key a mode's form handler caches its fetch under.
ModeKey(m) == IF m = "Forecast" THEN "forecast_data" ELSE "historical_data"

\* A form handler's fetch has just failed: the handler's own "API error"
\* message, or Streamlit's display of the exception nothing caught.
HandlerFetchFailed ==
    /\ pc \in {"timeseries", "crashed"}
    /\ event.kind = "submit"
    /\ shown \cap {"api_error", "exception"} # {}

\* C4, as stated: a failing fetch in a form handler leaves the session's
\* forecast_data and historical_data as they were before it.
C4_FailedFetchKeepsResults ==
    [][HandlerFetchFailed' /\ pc = "results" =>
          /\ DOMAIN session_state' \cap CacheKeys = DOMAIN session_state \cap CacheKeys
          /\ \A k \in DOMAIN session_state \cap CacheKeys :
                session_state'[k] = session_state[k]]_vars

\* C4, amended: when the fetch of a form handler fails an error is shown and
\* the result cached for that mode is discarded, not kept: on leaving the
\* handler session_state holds no forecast_data (Forecast) or historical_data
\* (Historical), also when it held one when the user pressed the button.
C4_FailedFetchDiscardsResult ==
    HandlerFetchFailed => ~Has(ModeKey(mode))

\* C4's case: a result was cached when the user pressed the button, and the
\* fetch failed with an HTTP error.
C4_Witness ==
    /\ HandlerFetchFailed
    /\ "api_error" \in shown
    /\ ModeKey(mode) \in prior
    /\ ~Has(ModeKey(mode))

\* C5, as stated: no failure of a call to the discharge API escapes the
\* handler that made it or keeps the run from reaching the footer.
C5_FetchFailuresAreCaught ==
    /\ pc # "crashed"
    /\ shown \cap {"ConnectionError", "KeyError"} = {}

\* C6, as stated: at most one request is sent to the discharge API within
\* one user interaction, so none follows a failed one.
C6_OneRequestPerInteraction == requests <= 1

Dash == [kind |-> "-"]

\* The selected area has no entry in the baseline mapping.
NoEntry(lga) == lga \notin DOMAIN baseline_map

\* C7 with the tier's label left open: after a lookup miss the forecast
\* metrics show "-" for baseline and ratio and the given tier, the run is not
\* ended by an exception, and the chart drawn for such an area has the
\* forecast line only.
MissShows(tier) ==
    /\ (metrics.kind = "forecast" /\ NoEntry(locals.lga)) =>
          /\ pc # "crashed"
          /\ metrics.baseline = Dash
          /\ metrics.ratio = Dash
          /\ metrics.risk = tier
    /\ (chart.kind = "fig" /\ NoEntry(session_state["sel_lga"])) =>
          Len(chart.traces) = 1

\* C7, as stated: looking up an area with no baseline entry never raises,
\* the baseline and ratio are shown as "-" and the risk tier is Unknown.
C7_MissShowsUnknown == MissShows("Unknown")

\* C7, amended: looking up an area with no baseline entry never raises, the
\* baseline and ratio are shown as "-" and the risk box shows the
\* classifier's label for an absent ratio, "No Data".
C7_MissShowsNoData == MissShows("No Data")

\* C7's case: the baseline file loaded, the selected area has no row in it,
\* a forecast with a discharge for the chosen date was shown and the run
\* reached the footer.
C7_Witness ==
    /\ pc = "done"
    /\ baseline_csv.status = "ok"
    /\ metrics.kind = "forecast"
    /\ NoEntry(locals.lga)
    /\ Truthy(locals.discharge)
    /\ chart.kind = "fig"

\* C8 with the tier's label left open: with a missing or malformed baseline
\* CSV the run is not stopped, goes on with an empty mapping (and a warning),
\* and every assessment has no ratio and the given tier.
BadCsvGives(tier) ==
    baseline_csv.status # "ok" =>
        /\ geo_asset.status = "ok" => pc # "stopped"
        /\ pc \notin {"load_shapefile", "load_baseline", "stopped"} =>
              /\ DOMAIN baseline_map = {}
              /\ "baseline_warning" \in shown
        /\ Assessed => IsNone(locals.ratio) /\ locals.risk_level = tier

\* C8, as stated: a missing or malformed baseline CSV does not abort
\* startup; the mapping is empty and every risk assessment is Unknown.
C8_BadCsvGivesUnknown == BadCsvGives("Unknown")

\* C8, amended: a missing or malformed baseline CSV does not abort startup;
\* the mapping is empty and every risk assessment gives the classifier's
\* label for an absent ratio, "No Data".
C8_BadCsvGivesNoData == BadCsvGives("No Data")

\* C8's case: the CSV is malformed, and an assessment of a fetched, non-zero
\* discharge was made and the run reached the footer.
C8_Witness ==
    /\ baseline_csv.status = "malformed"
    /\ pc = "done"
    /\ Assessed
    /\ Truthy(locals.discharge)

\* C9: with a missing or unparsable GeoJSON asset load_lga_gdf returns no
\* records and the run is stopped with an error message before any
\* selection widget, write to session_state or request to the API.
C9_BadGeoJsonStopsRun ==
    geo_asset.status # "ok" =>
        /\ pc \in {"load_shapefile", "stopped"}
        /\ pc = "stopped" => IsNone(lga_gdf) /\ "shapefile_error" \in shown
        /\ shown \subseteq {"mode_radio", "shapefile_error"}
        /\ DOMAIN session_state = {}
        /\ requests = 0

\* C9's case: the asset is unparsable and the run has been stopped.
C9_Witness ==
    /\ geo_asset.status = "malformed"
    /\ pc = "stopped"
    /\ "shapefile_error" \in shown

\* The recognised name properties an asset carries.
Recognised(asset) == {c \in asset.object_cols : InSeq(c, name_cols)}

\* The one of them that comes first in the priority list.
FirstByPriority(asset) ==
    name_cols[CHOOSE p \in DOMAIN name_cols :
                 /\ name_cols[p] \in Recognised(asset)
                 /\ \A q \in 1..(p - 1) : name_cols[q] \notin Recognised(asset)]

\* C10, as stated: when the source carries more than one recognised name
\* property, the area names are taken from the one that comes first in the
\* priority list, whatever the order of the properties in the source.
C10_FirstInPriorityListWins ==
    (Returned /\ fn_in.status = "ok" /\ Cardinality(Recognised(fn_in)) > 1) =>
        /\ fn_out.value.kind = "gdf"
        /\ \A i \in DOMAIN fn_out.value.rows :
              fn_out.value.rows[i].LGA = fn_in.features[i].props[FirstByPriority(fn_in)]

\* C11, as stated: when the source carries none of the recognised name
\* properties the load still succeeds and every record is named "Unknown".
C11_NoNamePropertyGivesUnknown ==
    (Returned /\ fn_in.status = "ok" /\ Recognised(fn_in) = {}) =>
        /\ fn_out.value.kind = "gdf"
        /\ Len(fn_out.value.rows) = Len(fn_in.features)
        /\ \A i \in DOMAIN fn_out.value.rows : fn_out.value.rows[i].LGA = "Unknown"

\* C12: when several rows of the baseline table have the same area name the
\* mapping holds the value of the last of them in file order, every name of
\* the table is a key, and duplicates do not make the load fail.
C12_LastRowWins ==
    (Returned /\ fn_in.status = "ok") =>
        /\ DOMAIN fn_out.value = {fn_in.rows[i].LGA : i \in DOMAIN fn_in.rows}
        /\ \A i \in DOMAIN fn_in.rows :
              (\A j \in (i + 1)..Len(fn_in.rows) : fn_in.rows[j].LGA # fn_in.rows[i].LGA)
                 => fn_out.value[fn_in.rows[i].LGA] = fn_in.rows[i].baseline

\* C12's case: the rows ("X", 10), ("X", 20) were loaded and X maps to 20.
C12_Witness ==
    /\ Returned
    /\ fn_in.status = "ok"
    /\ fn_in.rows = <<[LGA |-> "X", baseline |-> Float(10, 1)],
                      [LGA |-> "X", baseline |-> Float(20, 1)]>>
    /\ fn_out.value["X"] = Float(20, 1)

\* The line has one value per row of the frame, each equal to a/b times v.
ConstantLine(trace, df, v, a, b) ==
    /\ Len(trace.y) = Len(df.rows)
    /\ \A i \in DOMAIN trace.y :
          /\ trace.y[i].kind = "float"
          /\ trace.y[i].num * v.den * b = v.num * a * trace.y[i].den

\* C13, as stated: for a non-empty series the chart's primary line is the
\* series in its input order; with a baseline present (a number, zero
\* included) the chart also has the baseline line and the 0.8x and 1.2x
\* threshold lines, one value per date; with no baseline it has the primary
\* line only.
C13_LinesIffBaselinePresent ==
    (Returned /\ ~IsNone(fn_in.forecast_data) /\ fn_in.forecast_data.rows # <<>>) =>
        LET df == fn_in.forecast_data
            b == fn_in.baseline_value
            fig == fn_out.value
        IN /\ fig.kind = "fig"
           /\ fig.traces[1].x = [i \in DOMAIN df.rows |-> df.rows[i].date]
           /\ fig.traces[1].y = [i \in DOMAIN df.rows |-> df.rows[i].discharge_max]
           /\ IF b.kind = "float"
              THEN /\ Len(fig.traces) = 4
                   /\ \E t \in 2..4 : ConstantLine(fig.traces[t], df, b, 1, 1)
                   /\ \E t \in 2..4 : ConstantLine(fig.traces[t], df, b, 8, 10)
                   /\ \E t \in 2..4 : ConstantLine(fig.traces[t], df, b, 12, 10)
              ELSE Len(fig.traces) = 1

\* The chart section of a Forecast render with a selection is over.
ChartSectionDone == pc \in {"footer", "done"} /\ mode = "Forecast" /\ Has("sel_lga")

EmptyFrame == [kind |-> "df", rows |-> <<>>, lat |-> 6, lon |-> 4]

\* C14: for an empty or absent series generate_time_series_chart returns None
\* whatever the baseline, and the caller then draws no chart and shows a
\* notice: the "No forecast data available" warning for an empty series, the
\* fetch's error message when there is no series at all.
C14_EmptySeriesGivesNoChart ==
    /\ \A b \in ChartBaselines :
          /\ IsNone(generate_time_series_chart(None, "Lokoja", b))
          /\ IsNone(generate_time_series_chart(EmptyFrame, "Lokoja", b))
    /\ (ChartSectionDone /\ Has("forecast_data")
                         /\ session_state["forecast_data"].rows = <<>>) =>
          /\ IsNone(chart)
          /\ "chart" \notin shown
          /\ "no_chart_warning" \in shown
    /\ (ChartSectionDone /\ ~Has("forecast_data")) =>
          /\ IsNone(chart)
          /\ "chart" \notin shown
          /\ "timeseries_error" \in shown

\* C14's case: the API returned an empty series for an area that has a
\* baseline, the warning was shown in place of the chart and the run went on
\* to the footer.
C14_Witness ==
    /\ pc = "done"
    /\ ChartSectionDone
    /\ Has("forecast_data")
    /\ session_state["forecast_data"].rows = <<>>
    /\ Truthy(Get(baseline_map, session_state["sel_lga"]))
    /\ "no_chart_warning" \in shown

\* The four results of an assessment, as elements of the page.
ResultSet == {"discharge", "baseline", "ratio", "risk"}

\* A form handler's fetch succeeded and its results were rendered.
Rendered(m) == metrics.kind = m

\* In forecast mode the series fetched by the handler is charted over its
\* whole length, once the run has reached the chart section.
FullHorizonCharted ==
    (Rendered("forecast") /\ pc \in {"footer", "done"}
                          /\ session_state["forecast_data"].rows # <<>>) =>
        /\ chart.kind = "fig"
        /\ "chart" \in shown
        /\ chart.traces[1].y = [i \in DOMAIN session_state["forecast_data"].rows |->
                                  session_state["forecast_data"].rows[i].discharge_max]

\* C15, as stated: a successful interaction (the fetch returned a discharge
\* for the chosen date) renders discharge, baseline, ratio and risk tier in
\* forecast and in historical mode, and in forecast mode a chart of the full
\* horizon.
C15_BothModesRenderFullSet ==
    /\ ((Rendered("forecast") \/ Rendered("historical")) /\ locals.discharge.kind = "float")
          => ResultSet \subseteq DOMAIN metrics
    /\ FullHorizonCharted

\* C15, amended: a successful forecast interaction renders discharge,
\* baseline, ratio and risk tier and a chart of the full horizon; a successful
\* historical interaction renders the discharge only, although the handler
\* has computed baseline, ratio and tier.
C15_HistoricalRendersDischargeOnly ==
    /\ Rendered("forecast") =>
          /\ ResultSet \subseteq DOMAIN metrics
          /\ metrics.risk = locals.risk_level
    /\ Rendered("historical") =>
          /\ DOMAIN metrics \cap ResultSet = {"discharge"}
          /\ IsNone(chart)
    /\ FullHorizonCharted

\* C15's case: a historical interaction succeeded for an area with a
\* baseline and a non-zero discharge, so that a ratio and a tier were
\* computed, and the run reached the footer.
C15_Witness ==
    /\ pc = "done"
    /\ Rendered("historical")
    /\ locals.ratio.kind = "float"
    /\ locals.risk_level \in {"Low", "Medium", "High"}

\* A Forecast or Historical render has passed its mode-change check and has
\* stored nothing yet: what session_state caches was stored before it.
ModeEntered == pc = "select"

NothingCached == DOMAIN session_state \cap CacheKeys = {}

\* C16, as stated: whenever the mode of a Forecast/Historical render differs
\* from the mode of the render immediately before it, session_state holds no
\* forecast_data or historical_data stored before that change.
C16_ClearedAfterAnyModeChange ==
    (ModeEntered /\ prev_render.mode # mode) => NothingCached

\* C16, amended: whenever the mode of a Forecast/Historical render differs
\* from the mode of the latest Forecast/Historical render before it (About
\* renders in between do not count), session_state holds no forecast_data or
\* historical_data stored before that change.
C16_ClearedAfterDataModeChange ==
    (ModeEntered /\ prev_render.data_mode # mode) => NothingCached

\* C16's case: a forecast was cached, the user went to About and from there
\* to Historical, and the Historical render has dropped the forecast.
C16_Witness ==
    /\ ModeEntered
    /\ mode = "Historical"
    /\ prev_render = [mode |-> "About", data_mode |-> "Forecast"]
    /\ "forecast_data" \in prior
    /\ NothingCached

\* The stored selection is one record of the table: its name, state and
\* centroid.
SelectionIsRecord(gdf) ==
    \E i \in DOMAIN gdf.rows :
        /\ gdf.rows[i].LGA = session_state["sel_lga"]
        /\ gdf.rows[i].State = session_state["sel_state"]
        /\ gdf.rows[i].lat = session_state["lat"]
        /\ gdf.rows[i].lon = session_state["lon"]

\* C17: whenever forecast_data is in session_state it was fetched with the
\* latitude and longitude stored for the selected area sel_lga, which are
\* those of a record of that name; and a chart on the page is drawn from that
\* forecast_data and titled with sel_lga, never from data fetched for an
\* area selected before.
C17_ChartIsOfSelectedArea ==
    /\ Has("forecast_data") =>
          /\ Has("sel_lga")
          /\ session_state["forecast_data"].lat = session_state["lat"]
          /\ session_state["forecast_data"].lon = session_state["lon"]
          /\ SelectionIsRecord(load_lga_gdf(geo_asset))
    /\ chart.kind = "fig" =>
          /\ Has("forecast_data")
          /\ chart.title = session_state["sel_lga"]
          /\ chart.traces[1].y = [i \in DOMAIN session_state["forecast_data"].rows |->
                                    session_state["forecast_data"].rows[i].discharge_max]

\* C17's case: a forecast was cached when the user pressed "Select LGA"; the
\* handler dropped it, and the chart of the run that followed is drawn from a
\* forecast fetched anew for the stored selection.
C17_Witness ==
    /\ chart.kind = "fig"
    /\ mode = "Forecast"
    /\ prev_render.mode = "Forecast"
    /\ event.kind = "none"
    /\ "forecast_data" \in prior
    /\ requests = 1

\* C18, as stated: "Select LGA" pressed with a state filter other than "All
\* States" stores the record of the chosen area inside the filtered state:
\* sel_lga is the chosen name, sel_state the filter's state and lat, lon that
\* record's centroid, all four from one and the same record.
C18_SelectionIsInFilteredState ==
    [][(pc = "select" /\ event.kind = "select" /\ event.state_filter # "All States") =>
          /\ session_state'["sel_lga"] = event.selected
          /\ session_state'["sel_state"] = event.state_filter
          /\ \E i \in DOMAIN lga_gdf.rows :
                /\ lga_gdf.rows[i].LGA = event.selected
                /\ lga_gdf.rows[i].State = event.state_filter
                /\ lga_gdf.rows[i].lat = session_state'["lat"]
                /\ lga_gdf.rows[i].lon = session_state'["lon"]]_vars

=============================================================================
